---- MODULE Spec2Model ----
(***************************************************************************)
(* FlyCharts browser client: the SimConnect live link (simconnect.js) and  *)
(* the map renderer and poller (main script).                              *)
(*                                                                         *)
(* Numbers.  Latitudes and longitudes are integers in units of 1e-7        *)
(* degree, altitudes and headings are integers in tenths, so that          *)
(* toFixed(6), toFixed(4) and Math.round are real conversions.             *)
(***************************************************************************)
EXTENDS Integers, Sequences, FiniteSets, TLC

VARIABLES
    socket,                 \* "null" | "open"            (simconnect.js:7,14)
    socketConnected,        \* socket.connected
    autoUpdateEnabled,      \* simconnect.js:8
    isSimConnectConnected,  \* simconnect.js:9
    connectBtn,             \* [disabled, label] of #connect-btn
    disconnectBtnDisabled,  \* #disconnect-btn .disabled
    indicatorDisplay,       \* #realtime-indicator style.display
    simconnectStatus,       \* class of #simconnect-status
    toggleActive,           \* #auto-update-toggle has class "active"
    status,                 \* [message, dot, text]: #status, #status-dot, #status-text
    fields,                 \* the form fields latitude, longitude, altitude, heading
    aircraftData,           \* the global aircraftData object
    aircraftMarker,         \* the global aircraftMarker reference (Null or a marker)
    mapAircraft,            \* the aircraft markers attached to the map
    console,                \* the last console entry [level, tag]
    connectInFlight,        \* POST /api/simconnect/connect awaiting a response
    disconnectInFlight,     \* POST /api/simconnect/disconnect awaiting a response
    statusInFlight,         \* GET /api/simconnect/status awaiting a response
    legacyPosInFlight,      \* fallback poll: GET /aircraft/position awaiting a response
    legacyTypeInFlight,     \* fallback poll: GET /aircraft/type awaiting a response
    pollerPosInFlight,      \* poller: GET /aircraft/position awaiting a response
    pollerTypeInFlight,     \* poller: GET /aircraft/type awaiting a response
    mapLayers,              \* the tile/style layers attached to the map
    currentBaseLayer,       \* main script :29
    currentOverlayLayer,    \* main script :29
    airportMarkers,         \* the layers of the airportMarkers layer group, in order
    zoom,                   \* map.getZoom()
    airports,               \* the const airports of initMap (empty until loaded)
    zoomHandler,            \* TRUE once map.on('zoomend', ...) is registered
    initMapPc,              \* position of the async initMap
    last,                   \* the handler step that ran last
    sent                    \* the HTTP request that step issued ("none" if none)

linkVars == <<socket, socketConnected, autoUpdateEnabled, isSimConnectConnected,
              connectBtn, disconnectBtnDisabled, indicatorDisplay, simconnectStatus,
              toggleActive>>
posVars == <<fields, aircraftData, aircraftMarker, mapAircraft>>
flightVars == <<connectInFlight, disconnectInFlight, statusInFlight,
                legacyPosInFlight, legacyTypeInFlight>>
pollerVars == <<pollerPosInFlight, pollerTypeInFlight>>
mapVars == <<mapLayers, currentBaseLayer, currentOverlayLayer, airportMarkers,
             zoom, airports, zoomHandler, initMapPc>>
vars == <<linkVars, posVars, flightVars, pollerVars, mapVars, status, console, last, sent>>

----------------------------------------------------------------------------
(* Bounds *)

\* requests of one kind that may be awaiting a response at the same time
MaxInFlight == 1
\* length of the airport list airports.json may hold
MaxAirports == 2
\* largest airport size category
MaxSize == 3
\* requests of all kinds that may be awaiting a response at the same time,
\* in the specification of all HTTP operations
MaxOutstanding == 2

----------------------------------------------------------------------------
(* Values *)

Null == [null |-> TRUE]

NoNums == <<>>

Msg(tag, nums, word) == [tag |-> tag, nums |-> nums, word |-> word]

Abs(x) == IF x < 0 THEN -x ELSE x

\* Number.prototype.toFixed(6) of a value in 1e-7 units, in 1e-6 units.
\* toFixed works on |x| and picks the larger n on a tie.
ToFixed6(x) == IF x < 0 THEN -((Abs(x) + 5) \div 10) ELSE (x + 5) \div 10

\* Number.prototype.toFixed(4) of a value in 1e-7 units, in 1e-4 units.
ToFixed4(x) == IF x < 0 THEN -((Abs(x) + 500) \div 1000) ELSE (x + 500) \div 1000

\* Math.floor in place of Math.round
MathRound_Floor(x) == x \div 10

\* Math.round of a value in tenths: floor(x + 0.5).
MathRound(x) == (x + 5) \div 10

\* the position readings the feed delivers: 47.6/-122.3/1000/90 of the
\* example, one with fractions that round up, one with negative values,
\* and one without a numeric latitude (toFixed throws on it)
Reading(lat, lng, alt, hdg, gs, title, atc, ok) ==
    [latitude |-> lat, longitude |-> lng, altitude |-> alt, heading |-> hdg,
     ground_speed |-> gs, aircraft_title |-> title, atc_id |-> atc, wellFormed |-> ok]

Readings ==
    { Reading(476000000, -1223000000, 10000, 900, 120, "C172", "N123", TRUE),
      Reading(476123456, -1223000005, 12345, 2705, 95, "B738", "", TRUE),
      Reading(-338567849, 1512153000, -25, 0, 0, "C172", "", TRUE),
      Reading(0, 0, 0, 0, 0, "", "", FALSE) }

AircraftTypes == {"C172", "B738"}

----------------------------------------------------------------------------
(* Helpers of both scripts *)

\* updateStatus(message, type): 'success' and 'error' restyle the dot and the
\* text, any other type ('warning') only replaces the message
updateStatus(st, message, type) ==
    [message |-> message,
     dot  |-> IF type = "success" THEN "#10b981"
              ELSE IF type = "error" THEN "#ef4444" ELSE st.dot,
     text |-> IF type = "success" THEN "Succeeded"
              ELSE IF type = "error" THEN "Failed" ELSE st.text]

Log(level, tag) == [level |-> level, tag |-> tag]

\* a handler step, with the position reading it was given (Null if none)
StepData(op, outcome, data) == [op |-> op, outcome |-> outcome, data |-> data]

Step(op, outcome) == StepData(op, outcome, Null)

\* a new object gets an identity no attached object has
FreshId(attached) == CHOOSE n \in 1..(Cardinality(attached) + 1) :
                        \A l \in attached : l.id # n

----------------------------------------------------------------------------
(* Initial state: both scripts have been evaluated.  initMap has run up to  *)
(* its await of airports.json; initSimConnectIntegration has opened the     *)
(* socket (when io is defined), sent the first status check and set the two *)
(* timers.                                                                  *)

TomTomLayer(attached) == [id |-> FreshId(attached), source |-> "tomtom", pane |-> "tile"]

InitialZoom == 4

Init ==
    /\ socket \in {"null", "open"}
    /\ socketConnected = FALSE
    /\ autoUpdateEnabled = TRUE
    /\ isSimConnectConnected = FALSE
    /\ connectBtn = [disabled |-> FALSE, label |-> "Connect"]
    /\ disconnectBtnDisabled = TRUE
    /\ indicatorDisplay = "none"
    /\ simconnectStatus = "initial"
    /\ toggleActive = TRUE
    /\ status = IF socket = "null"
                THEN [message |-> Msg("Real-time updates unavailable", NoNums, ""),
                      dot |-> "initial", text |-> "initial"]
                ELSE [message |-> Msg("", NoNums, ""), dot |-> "initial", text |-> "initial"]
    /\ fields = [latitude |-> 0, longitude |-> 0, altitude |-> 0, heading |-> 0]
    /\ aircraftData = [latitude |-> 0, longitude |-> 0, altitude |-> 0, heading |-> 0,
                       groundSpeed |-> 0, aircraft |-> "", callsign |-> ""]
    /\ aircraftMarker = Null
    /\ mapAircraft = {}
    /\ console = Log("log", "SimConnect integration initialized")
    /\ connectInFlight = 0
    /\ disconnectInFlight = 0
    /\ statusInFlight = 1
    /\ legacyPosInFlight = 0
    /\ legacyTypeInFlight = 0
    /\ pollerPosInFlight = 0
    /\ pollerTypeInFlight = 0
    /\ currentBaseLayer = TomTomLayer({})
    /\ mapLayers = {currentBaseLayer}
    /\ currentOverlayLayer = Null
    /\ airportMarkers = <<>>
    /\ zoom = InitialZoom
    /\ airports = <<>>
    /\ zoomHandler = FALSE
    /\ initMapPc = "fetching"
    /\ last = Step("init", "")
    /\ sent = "/api/simconnect/status"

----------------------------------------------------------------------------
(* Live link: connect and disconnect *)

ConnectOutcomes == {"success", "failure", "unparsable", "network"}

\* connectSimConnect up to its await (the click needs an enabled button)
connectSimConnect ==
    /\ ~connectBtn.disabled
    /\ connectInFlight < MaxInFlight
    /\ connectBtn' = [disabled |-> TRUE, label |-> "Connecting..."]
    /\ connectInFlight' = connectInFlight + 1
    /\ last' = Step("connect", "request")
    /\ sent' = "/api/simconnect/connect"
    /\ UNCHANGED <<socket, socketConnected, autoUpdateEnabled, isSimConnectConnected,
                   disconnectBtnDisabled, indicatorDisplay, simconnectStatus, toggleActive,
                   posVars, pollerVars, mapVars, status, console,
                   disconnectInFlight, statusInFlight, legacyPosInFlight, legacyTypeInFlight>>

\* the branch taken on any parsed body
ConnectSucceeded_AnyBody(outcome) == outcome \in {"success", "failure"}

\* if (result.success)
ConnectSucceeded(outcome) == outcome = "success"

\* a finally block that leaves the button alone
ResetConnectBtn_Missing == connectBtn

\* the finally block: the button is enabled and relabelled
ResetConnectBtn == [disabled |-> FALSE, label |-> "Connect"]

\* connectSimConnect from the response on: try, catch and finally
connectResponse(outcome) ==
    /\ connectInFlight > 0
    /\ connectInFlight' = connectInFlight - 1
    /\ IF ConnectSucceeded(outcome)
       THEN /\ isSimConnectConnected' = TRUE
            /\ disconnectBtnDisabled' = FALSE
            /\ status' = updateStatus(status,
                              Msg("Connected to SimConnect successfully", NoNums, ""), "success")
            /\ indicatorDisplay' = IF autoUpdateEnabled THEN "flex" ELSE indicatorDisplay
            /\ UNCHANGED console
       ELSE /\ status' = updateStatus(status,
                              Msg(IF outcome = "failure" THEN "Failed to connect: "
                                  ELSE "Connection error: ", NoNums, ""), "error")
            /\ console' = Log("error", IF outcome = "failure"
                                       THEN "SimConnect connection failed:"
                                       ELSE "Connection error:")
            /\ UNCHANGED <<isSimConnectConnected, disconnectBtnDisabled, indicatorDisplay>>
    /\ connectBtn' = ResetConnectBtn
    /\ last' = Step("connectResponse", outcome)
    /\ sent' = "none"
    /\ UNCHANGED <<socket, socketConnected, autoUpdateEnabled, simconnectStatus, toggleActive,
                   posVars, pollerVars, mapVars,
                   disconnectInFlight, statusInFlight, legacyPosInFlight, legacyTypeInFlight>>

DisconnectOutcomes == {"ok", "http_error", "unparsable", "network"}

\* disconnectSimConnect up to its await
disconnectSimConnect ==
    /\ ~disconnectBtnDisabled
    /\ disconnectInFlight < MaxInFlight
    /\ disconnectInFlight' = disconnectInFlight + 1
    /\ last' = Step("disconnect", "request")
    /\ sent' = "/api/simconnect/disconnect"
    /\ UNCHANGED <<linkVars, posVars, pollerVars, mapVars, status, console,
                   connectInFlight, statusInFlight, legacyPosInFlight, legacyTypeInFlight>>

\* a disconnect that also insists on response.ok
DisconnectParsed_OkOnly(outcome) == outcome = "ok"

\* the awaits of fetch and response.json() both resolve
DisconnectParsed(outcome) == outcome \in {"ok", "http_error"}

\* disconnectSimConnect from the response on.  fetch resolves on an HTTP
\* error status; a network failure rejects fetch and an unparsable body
\* rejects response.json(), both before the state is touched
disconnectResponse(outcome) ==
    /\ disconnectInFlight > 0
    /\ disconnectInFlight' = disconnectInFlight - 1
    /\ IF DisconnectParsed(outcome)
       THEN /\ isSimConnectConnected' = FALSE
            /\ connectBtn' = [connectBtn EXCEPT !.disabled = FALSE]
            /\ disconnectBtnDisabled' = TRUE
            /\ indicatorDisplay' = "none"
            /\ status' = updateStatus(status,
                              Msg("Disconnected from SimConnect", NoNums, ""), "success")
            /\ console' = Log("log", "SimConnect disconnected:")
       ELSE /\ status' = updateStatus(status, Msg("Disconnect error: ", NoNums, ""), "error")
            /\ console' = Log("error", "Disconnect error:")
            /\ UNCHANGED <<isSimConnectConnected, connectBtn, disconnectBtnDisabled,
                           indicatorDisplay>>
    /\ last' = Step("disconnectResponse", outcome)
    /\ sent' = "none"
    /\ UNCHANGED <<socket, socketConnected, autoUpdateEnabled, simconnectStatus, toggleActive,
                   posVars, pollerVars, mapVars,
                   connectInFlight, statusInFlight, legacyPosInFlight, legacyTypeInFlight>>

----------------------------------------------------------------------------
(* Live link: status reports, the toggle, socket events *)

\* updateSimConnectStatus(statusData), by the truthiness of statusData.connected
updateSimConnectStatus(connected) ==
    /\ IF connected
       THEN /\ simconnectStatus' = "status-connected"
            /\ connectBtn' = [connectBtn EXCEPT !.disabled = TRUE]
            /\ disconnectBtnDisabled' = FALSE
            /\ isSimConnectConnected' = TRUE
            /\ indicatorDisplay' = IF autoUpdateEnabled THEN "flex" ELSE indicatorDisplay
       ELSE /\ simconnectStatus' = "status-disconnected"
            /\ connectBtn' = [connectBtn EXCEPT !.disabled = FALSE]
            /\ disconnectBtnDisabled' = TRUE
            /\ isSimConnectConnected' = FALSE
            /\ indicatorDisplay' = "none"
    /\ console' = Log("log", "SimConnect status updated:")

\* socket.on('simconnect_status')
onSimconnectStatus(connected) ==
    /\ socket = "open"
    /\ socketConnected
    /\ updateSimConnectStatus(connected)
    /\ last' = Step("simconnect_status", IF connected THEN "connected" ELSE "not_connected")
    /\ sent' = "none"
    /\ UNCHANGED <<socket, socketConnected, autoUpdateEnabled, toggleActive,
                   posVars, flightVars, pollerVars, mapVars, status>>

\* checkSimConnectStatus up to its await (initial call and 10 s timer)
checkSimConnectStatus ==
    /\ statusInFlight < MaxInFlight
    /\ statusInFlight' = statusInFlight + 1
    /\ last' = Step("checkSimConnectStatus", "request")
    /\ sent' = "/api/simconnect/status"
    /\ UNCHANGED <<linkVars, posVars, pollerVars, mapVars, status, console,
                   connectInFlight, disconnectInFlight, legacyPosInFlight, legacyTypeInFlight>>

\* the bodies /api/simconnect/status can answer with: connected true or
\* false, an error-flagged body (no connected field), an unparsable body
\* (or a JSON null), and no answer at all
StatusOutcomes == {"connected", "not_connected", "error_flagged", "unparsable", "network"}

\* checkSimConnectStatus from the response on
statusResponse(outcome) ==
    /\ statusInFlight > 0
    /\ statusInFlight' = statusInFlight - 1
    /\ IF outcome \in {"unparsable", "network"}
       THEN /\ console' = Log("error", "Error checking SimConnect status:")
            /\ UNCHANGED <<simconnectStatus, connectBtn, disconnectBtnDisabled,
                           isSimConnectConnected, indicatorDisplay>>
       ELSE updateSimConnectStatus(outcome = "connected")
    /\ last' = Step("statusResponse", outcome)
    /\ sent' = "none"
    /\ UNCHANGED <<socket, socketConnected, autoUpdateEnabled, toggleActive,
                   posVars, pollerVars, mapVars, status,
                   connectInFlight, disconnectInFlight, legacyPosInFlight, legacyTypeInFlight>>

\* a toggle that takes the disconnect button down with the indicator
toggleAutoUpdate_TouchesButtons ==
    /\ autoUpdateEnabled' = ~autoUpdateEnabled
    /\ IF autoUpdateEnabled'
       THEN /\ toggleActive' = TRUE
            /\ indicatorDisplay' = IF isSimConnectConnected THEN "flex" ELSE indicatorDisplay
            /\ status' = updateStatus(status, Msg("Real-time updates enabled", NoNums, ""),
                                      "success")
            /\ UNCHANGED disconnectBtnDisabled
       ELSE /\ toggleActive' = FALSE
            /\ indicatorDisplay' = "none"
            /\ disconnectBtnDisabled' = TRUE
            /\ status' = updateStatus(status, Msg("Real-time updates disabled", NoNums, ""),
                                      "warning")
    /\ last' = Step("toggleAutoUpdate", "")
    /\ sent' = "none"
    /\ UNCHANGED <<socket, socketConnected, isSimConnectConnected, connectBtn,
                   simconnectStatus, posVars, flightVars, pollerVars, mapVars, console>>

\* a toggle that shows the indicator without asking whether SimConnect is connected
toggleAutoUpdate_AlwaysShows ==
    /\ autoUpdateEnabled' = ~autoUpdateEnabled
    /\ IF autoUpdateEnabled'
       THEN /\ toggleActive' = TRUE
            /\ indicatorDisplay' = "flex"
            /\ status' = updateStatus(status, Msg("Real-time updates enabled", NoNums, ""),
                                      "success")
       ELSE /\ toggleActive' = FALSE
            /\ indicatorDisplay' = "none"
            /\ status' = updateStatus(status, Msg("Real-time updates disabled", NoNums, ""),
                                      "warning")
    /\ last' = Step("toggleAutoUpdate", "")
    /\ sent' = "none"
    /\ UNCHANGED <<socket, socketConnected, isSimConnectConnected, connectBtn,
                   disconnectBtnDisabled, simconnectStatus,
                   posVars, flightVars, pollerVars, mapVars, console>>

toggleAutoUpdate ==
    /\ autoUpdateEnabled' = ~autoUpdateEnabled
    /\ IF autoUpdateEnabled'
       THEN /\ toggleActive' = TRUE
            /\ indicatorDisplay' = IF isSimConnectConnected THEN "flex" ELSE indicatorDisplay
            /\ status' = updateStatus(status, Msg("Real-time updates enabled", NoNums, ""),
                                      "success")
       ELSE /\ toggleActive' = FALSE
            /\ indicatorDisplay' = "none"
            /\ status' = updateStatus(status, Msg("Real-time updates disabled", NoNums, ""),
                                      "warning")
    /\ last' = Step("toggleAutoUpdate", "")
    /\ sent' = "none"
    /\ UNCHANGED <<socket, socketConnected, isSimConnectConnected, connectBtn,
                   disconnectBtnDisabled, simconnectStatus,
                   posVars, flightVars, pollerVars, mapVars, console>>

\* socket.on('connect')
onSocketConnect ==
    /\ socket = "open"
    /\ ~socketConnected
    /\ socketConnected' = TRUE
    /\ console' = Log("log", "Connected to FlyCharts server")
    /\ status' = updateStatus(status, Msg("Connected to server", NoNums, ""), "success")
    /\ last' = Step("socket_connect", "")
    /\ sent' = "none"
    /\ UNCHANGED <<socket, autoUpdateEnabled, isSimConnectConnected, connectBtn,
                   disconnectBtnDisabled, indicatorDisplay, simconnectStatus, toggleActive,
                   posVars, flightVars, pollerVars, mapVars>>

\* socket.on('disconnect')
onSocketDisconnect ==
    /\ socket = "open"
    /\ socketConnected
    /\ socketConnected' = FALSE
    /\ console' = Log("log", "Disconnected from FlyCharts server")
    /\ status' = updateStatus(status, Msg("Disconnected from server", NoNums, ""), "warning")
    /\ last' = Step("socket_disconnect", "")
    /\ sent' = "none"
    /\ UNCHANGED <<socket, autoUpdateEnabled, isSimConnectConnected, connectBtn,
                   disconnectBtnDisabled, indicatorDisplay, simconnectStatus, toggleActive,
                   posVars, flightVars, pollerVars, mapVars>>

\* socket.on('error')
onSocketError ==
    /\ socket = "open"
    /\ console' = Log("error", "Socket error:")
    /\ status' = updateStatus(status, Msg("Connection error", NoNums, ""), "error")
    /\ last' = Step("socket_error", "")
    /\ sent' = "none"
    /\ UNCHANGED <<linkVars, posVars, flightVars, pollerVars, mapVars>>

----------------------------------------------------------------------------
(* Position readings *)

\* 90 degrees, in tenths
QuarterTurn == 900

\* updateAircraftMarkerPosition without the removal of the existing marker
updateAircraftMarkerPosition_NoRemove(lat, lng, heading) ==
    LET marker == [id |-> FreshId(mapAircraft), lat |-> lat, lng |-> lng,
                   rot |-> heading - QuarterTurn]
    IN  [aircraftMarker |-> marker, mapAircraft |-> mapAircraft \cup {marker}]

\* updateAircraftMarkerPosition(lat, lng, heading): the marker reference and
\* the aircraft markers on the map after the call
updateAircraftMarkerPosition(lat, lng, heading) ==
    LET kept   == IF aircraftMarker # Null THEN mapAircraft \ {aircraftMarker}
                  ELSE mapAircraft
        marker == [id |-> FreshId(kept), lat |-> lat, lng |-> lng,
                   rot |-> heading - QuarterTurn]
    IN  [aircraftMarker |-> marker, mapAircraft |-> kept \cup {marker}]

PosState(f, d, m, onMap, st, con) ==
    [fields |-> f, aircraftData |-> d, aircraftMarker |-> m, mapAircraft |-> onMap,
     status |-> st, console |-> con]

\* the body of handleRealtimePositionUpdate after its guard: the state it
\* leaves.  A reading without a numeric latitude makes toFixed throw before
\* anything is written.  showAircraftInfo() is an external collaborator with
\* no effect on this state.
applyPositionUpdate(p) ==
    IF ~p.wellFormed
    THEN PosState(fields, aircraftData, aircraftMarker, mapAircraft,
                  updateStatus(status, Msg("Error processing position data", NoNums, ""),
                               "error"),
                  Log("error", "Error handling position update:"))
    ELSE LET mk == updateAircraftMarkerPosition(p.latitude, p.longitude, p.heading)
         IN  PosState([latitude  |-> ToFixed6(p.latitude),
                       longitude |-> ToFixed6(p.longitude),
                       altitude  |-> MathRound(p.altitude),
                       heading   |-> MathRound(p.heading)],
                      [latitude |-> p.latitude, longitude |-> p.longitude,
                       altitude |-> p.altitude, heading |-> p.heading,
                       groundSpeed |-> p.ground_speed, aircraft |-> p.aircraft_title,
                       callsign |-> p.atc_id],
                      mk.aircraftMarker, mk.mapAircraft,
                      updateStatus(status,
                                   Msg("Live: ", <<ToFixed4(p.latitude), ToFixed4(p.longitude),
                                                   MathRound(p.altitude)>>, "ft"),
                                   "success"),
                      Log("log", "Received position update:"))

\* handleRealtimePositionUpdate(positionData)
handleRealtimePositionUpdate(p) ==
    IF ~autoUpdateEnabled
    THEN PosState(fields, aircraftData, aircraftMarker, mapAircraft, status, console)
    ELSE applyPositionUpdate(p)

ApplyPos(r) ==
    /\ fields' = r.fields
    /\ aircraftData' = r.aircraftData
    /\ aircraftMarker' = r.aircraftMarker
    /\ mapAircraft' = r.mapAircraft
    /\ status' = r.status
    /\ console' = r.console

\* a push handler that applies every reading, whatever the toggle says
onAircraftPositionUpdate_Unguarded(data) ==
    /\ socket = "open"
    /\ socketConnected
    /\ IF data # Null
       THEN ApplyPos(applyPositionUpdate(data))
       ELSE UNCHANGED <<posVars, status, console>>
    /\ last' = StepData("aircraft_position_update",
                        IF data = Null THEN "null" ELSE "data", data)
    /\ sent' = "none"
    /\ UNCHANGED <<linkVars, flightVars, pollerVars, mapVars>>

\* socket.on('aircraft_position_update'): data is a reading or null
onAircraftPositionUpdate(data) ==
    /\ socket = "open"
    /\ socketConnected
    /\ IF autoUpdateEnabled /\ data # Null
       THEN ApplyPos(handleRealtimePositionUpdate(data))
       ELSE UNCHANGED <<posVars, status, console>>
    /\ last' = StepData("aircraft_position_update",
                        IF data = Null THEN "null" ELSE "data", data)
    /\ sent' = "none"
    /\ UNCHANGED <<linkVars, flightVars, pollerVars, mapVars>>

----------------------------------------------------------------------------
(* Fallback poll: fetchAircraftDataEnhanced on its 2 s timer *)

\* a tick without the socket.connected check
fetchAircraftDataEnhanced_NoSocketCheck ==
    /\ IF ~isSimConnectConnected
       THEN /\ last' = Step("fetchAircraftDataEnhanced", "not_connected")
            /\ sent' = "none"
            /\ UNCHANGED legacyPosInFlight
       ELSE /\ legacyPosInFlight < MaxInFlight
            /\ legacyPosInFlight' = legacyPosInFlight + 1
            /\ last' = Step("fetchAircraftDataEnhanced", "request")
            /\ sent' = "/aircraft/position"
    /\ UNCHANGED <<linkVars, posVars, pollerVars, mapVars, status, console,
                   connectInFlight, disconnectInFlight, statusInFlight, legacyTypeInFlight>>

\* the timer tick up to the first await
fetchAircraftDataEnhanced ==
    /\ IF socket = "open" /\ socketConnected
       THEN /\ last' = Step("fetchAircraftDataEnhanced", "socket_connected")
            /\ sent' = "none"
            /\ UNCHANGED legacyPosInFlight
       ELSE IF ~isSimConnectConnected
       THEN /\ last' = Step("fetchAircraftDataEnhanced", "not_connected")
            /\ sent' = "none"
            /\ UNCHANGED legacyPosInFlight
       ELSE /\ legacyPosInFlight < MaxInFlight
            /\ legacyPosInFlight' = legacyPosInFlight + 1
            /\ last' = Step("fetchAircraftDataEnhanced", "request")
            /\ sent' = "/aircraft/position"
    /\ UNCHANGED <<linkVars, posVars, pollerVars, mapVars, status, console,
                   connectInFlight, disconnectInFlight, statusInFlight, legacyTypeInFlight>>

\* the position response: a reading, an error payload, or a rejection
\* (network failure, unparsable body); every parsable body is followed by
\* the /aircraft/type request
legacyPositionResponse(outcome, data) ==
    /\ legacyPosInFlight > 0
    /\ legacyPosInFlight' = legacyPosInFlight - 1
    /\ IF outcome \in {"unparsable", "network"}
       THEN /\ console' = Log("error", "Legacy fetch error:")
            /\ sent' = "none"
            /\ UNCHANGED <<posVars, status, legacyTypeInFlight>>
       ELSE /\ legacyTypeInFlight < MaxInFlight
            /\ legacyTypeInFlight' = legacyTypeInFlight + 1
            /\ sent' = "/aircraft/type"
            /\ IF outcome = "error"
               THEN /\ console' = Log("error", "Position Error:")
                    /\ UNCHANGED <<posVars, status>>
               ELSE IF autoUpdateEnabled
               THEN ApplyPos(handleRealtimePositionUpdate(data))
               ELSE /\ console' = Log("log", "Position (legacy):")
                    /\ UNCHANGED <<posVars, status>>
    /\ last' = StepData("legacyPositionResponse", outcome,
                        IF outcome = "data" THEN data ELSE Null)
    /\ UNCHANGED <<linkVars, pollerVars, mapVars,
                   connectInFlight, disconnectInFlight, statusInFlight>>

\* the type response
legacyTypeResponse(outcome, type) ==
    /\ legacyTypeInFlight > 0
    /\ legacyTypeInFlight' = legacyTypeInFlight - 1
    /\ IF outcome \in {"unparsable", "network"}
       THEN /\ console' = Log("error", "Legacy fetch error:")
            /\ UNCHANGED aircraftData
       ELSE IF outcome = "error"
       THEN /\ console' = Log("error", "Type Error:")
            /\ UNCHANGED aircraftData
       ELSE /\ console' = Log("log", "Aircraft Type (legacy):")
            /\ aircraftData' = [aircraftData EXCEPT !.aircraft = type]
    /\ last' = Step("legacyTypeResponse", outcome)
    /\ sent' = "none"
    /\ UNCHANGED <<linkVars, fields, aircraftMarker, mapAircraft, pollerVars, mapVars, status,
                   connectInFlight, disconnectInFlight, statusInFlight, legacyPosInFlight>>

FetchOutcomes == {"data", "error", "unparsable", "network"}

----------------------------------------------------------------------------
(* Poller: fetchAircraftData on its 2 s timer *)

\* a tick that stands back while the live link is connected
fetchAircraftData_Superseded ==
    /\ ~isSimConnectConnected
    /\ pollerPosInFlight < MaxInFlight
    /\ pollerPosInFlight' = pollerPosInFlight + 1
    /\ last' = Step("fetchAircraftData", "request")
    /\ sent' = "/aircraft/position"
    /\ UNCHANGED <<linkVars, posVars, flightVars, mapVars, status, console,
                   pollerTypeInFlight>>

fetchAircraftData ==
    /\ pollerPosInFlight < MaxInFlight
    /\ pollerPosInFlight' = pollerPosInFlight + 1
    /\ last' = Step("fetchAircraftData", "request")
    /\ sent' = "/aircraft/position"
    /\ UNCHANGED <<linkVars, posVars, flightVars, mapVars, status, console,
                   pollerTypeInFlight>>

\* a position response whose error payload ends the cycle
pollerPositionResponse_StopsOnError(outcome) ==
    /\ pollerPosInFlight > 0
    /\ pollerPosInFlight' = pollerPosInFlight - 1
    /\ IF outcome # "data"
       THEN /\ console' = IF outcome = "error" THEN Log("error", "Position Error:")
                          ELSE Log("error", "Fetch Error:")
            /\ sent' = "none"
            /\ UNCHANGED pollerTypeInFlight
       ELSE /\ pollerTypeInFlight < MaxInFlight
            /\ pollerTypeInFlight' = pollerTypeInFlight + 1
            /\ sent' = "/aircraft/type"
            /\ console' = Log("log", "Position:")
    /\ last' = Step("pollerPositionResponse", outcome)
    /\ UNCHANGED <<linkVars, posVars, flightVars, mapVars, status>>

pollerPositionResponse(outcome) ==
    /\ pollerPosInFlight > 0
    /\ pollerPosInFlight' = pollerPosInFlight - 1
    /\ IF outcome \in {"unparsable", "network"}
       THEN /\ console' = Log("error", "Fetch Error:")
            /\ sent' = "none"
            /\ UNCHANGED pollerTypeInFlight
       ELSE /\ pollerTypeInFlight < MaxInFlight
            /\ pollerTypeInFlight' = pollerTypeInFlight + 1
            /\ sent' = "/aircraft/type"
            /\ console' = IF outcome = "error" THEN Log("error", "Position Error:")
                          ELSE Log("log", "Position:")
    /\ last' = Step("pollerPositionResponse", outcome)
    /\ UNCHANGED <<linkVars, posVars, flightVars, mapVars, status>>

\* a type response whose failures go to console.log
pollerTypeResponse_LogsInfo(outcome) ==
    /\ pollerTypeInFlight > 0
    /\ pollerTypeInFlight' = pollerTypeInFlight - 1
    /\ console' = IF outcome = "data" THEN Log("log", "Aircraft Type:")
                  ELSE Log("log", "Fetch Error:")
    /\ last' = Step("pollerTypeResponse", outcome)
    /\ sent' = "none"
    /\ UNCHANGED <<linkVars, posVars, flightVars, mapVars, status, pollerPosInFlight>>

pollerTypeResponse(outcome) ==
    /\ pollerTypeInFlight > 0
    /\ pollerTypeInFlight' = pollerTypeInFlight - 1
    /\ console' = IF outcome \in {"unparsable", "network"} THEN Log("error", "Fetch Error:")
                  ELSE IF outcome = "error" THEN Log("error", "Type Error:")
                  ELSE Log("log", "Aircraft Type:")
    /\ last' = Step("pollerTypeResponse", outcome)
    /\ sent' = "none"
    /\ UNCHANGED <<linkVars, posVars, flightVars, mapVars, status, pollerPosInFlight>>

----------------------------------------------------------------------------
(* Map renderer *)

AirportCodes == {"KSEA", "KJFK"}

Airport(code, size) ==
    [code |-> code, size |-> size,
     lat |-> IF code = "KSEA" THEN 474490000 ELSE 406413000,
     lng |-> IF code = "KSEA" THEN -1223093000 ELSE -737781000]

AirportRecords == {Airport(c, s) : c \in AirportCodes, s \in 1..MaxSize}

\* the arrays airports.json may hold
AirportLists == UNION {[1..n -> AirportRecords] : n \in 0..MaxAirports}

ZoomLevels == {3, 4, 5, 6, 8, 9}

\* the filter of addAirportMarkers
ZoomFilter(a, z) ==
    IF z < 5 THEN a.size = 1
    ELSE IF z <= 8 THEN a.size <= 2
    ELSE TRUE

RECURSIVE FilterSeq(_, _)
FilterSeq(list, z) ==
    IF list = <<>> THEN <<>>
    ELSE IF ZoomFilter(Head(list), z) THEN <<Head(list)>> \o FilterSeq(Tail(list), z)
    ELSE FilterSeq(Tail(list), z)

AirportMarker(a) == [lat |-> a.lat, lng |-> a.lng, popup |-> a.code]

\* addAirportMarkers without clearLayers
addAirportMarkers_NoClear(old, list, z) ==
    LET filtered == FilterSeq(list, z)
    IN  old \o [i \in 1..Len(filtered) |-> AirportMarker(filtered[i])]

\* addAirportMarkers(airports): the layers of airportMarkers after the call
\* (clearLayers, then one marker per filtered airport, in order)
addAirportMarkers(old, list, z) ==
    LET cleared  == <<>>
        filtered == FilterSeq(list, z)
    IN  cleared \o [i \in 1..Len(filtered) |-> AirportMarker(filtered[i])]

\* initMap after airports.json has been fetched and parsed
initMapLoaded(list) ==
    /\ initMapPc = "fetching"
    /\ airports' = list
    /\ airportMarkers' = addAirportMarkers(airportMarkers, list, zoom)
    /\ zoomHandler' = TRUE
    /\ status' = updateStatus(status, Msg("Map loaded successfully", NoNums, ""), "success")
    /\ initMapPc' = "done"
    /\ last' = Step("initMap", "loaded")
    /\ sent' = "none"
    /\ UNCHANGED <<linkVars, posVars, flightVars, pollerVars, console,
                   mapLayers, currentBaseLayer, currentOverlayLayer, zoom>>

\* initMap after the fetch of airports.json failed: the catch reports the
\* failure, then the last line reports success
initMapFailed ==
    /\ initMapPc = "fetching"
    /\ status' = updateStatus(
                      updateStatus(status, Msg("Failed to load airports.json", NoNums, ""),
                                   "error"),
                      Msg("Map loaded successfully", NoNums, ""), "success")
    /\ initMapPc' = "done"
    /\ last' = Step("initMap", "failed")
    /\ sent' = "none"
    /\ UNCHANGED <<linkVars, posVars, flightVars, pollerVars, console,
                   mapLayers, currentBaseLayer, currentOverlayLayer, airportMarkers,
                   zoom, airports, zoomHandler>>

\* the map's zoom changes to z; the zoomend handler runs when registered
onZoomEnd(z) ==
    /\ z # zoom
    /\ zoom' = z
    /\ IF zoomHandler
       THEN /\ airportMarkers' = addAirportMarkers(airportMarkers, airports, z)
            /\ status' = updateStatus(status,
                              Msg("Updated airport markers for zoom level ", <<z>>, ""),
                              "success")
       ELSE UNCHANGED <<airportMarkers, status>>
    /\ last' = Step("zoomend", "")
    /\ sent' = "none"
    /\ UNCHANGED <<linkVars, posVars, flightVars, pollerVars, console,
                   mapLayers, currentBaseLayer, currentOverlayLayer,
                   airports, zoomHandler, initMapPc>>

\* the values of the #mapLayer select; "street" takes the default branch
LayerIds == {"street", "satellite", "terrain", "topo", "dark", "hybrid", "darkHybrid",
             "tomtom"}

\* the tile source each identifier selects
BaseSource(selectedLayer) ==
    CASE selectedLayer = "satellite"  -> "google-s"
      [] selectedLayer = "terrain"    -> "stamen-terrain"
      [] selectedLayer = "topo"       -> "opentopomap"
      [] selectedLayer = "dark"       -> "carto-dark"
      [] selectedLayer = "hybrid"     -> "google-y"
      [] selectedLayer = "darkHybrid" -> "carto-dark"
      [] selectedLayer = "tomtom"     -> "tomtom"
      [] OTHER                        -> "osm"

\* changeMapLayer without the removal of the overlay
ChangedLayers_KeepOverlay(selectedLayer) ==
    LET bare   == IF currentBaseLayer # Null THEN mapLayers \ {currentBaseLayer}
                  ELSE mapLayers
        base   == [id |-> FreshId(bare), source |-> BaseSource(selectedLayer),
                   pane |-> "tile"]
        over   == [id |-> FreshId(bare \cup {base}), source |-> "google-h",
                   pane |-> "labels"]
    IN  IF selectedLayer = "darkHybrid"
        THEN [mapLayers |-> bare \cup {base, over}, base |-> base, overlay |-> over]
        ELSE [mapLayers |-> bare \cup {base}, base |-> base, overlay |-> Null]

\* the layers changeMapLayer leaves on the map and in its two references,
\* up to the first addAirportMarkers(airports)
ChangedLayers(selectedLayer) ==
    LET noBase == IF currentBaseLayer # Null THEN mapLayers \ {currentBaseLayer}
                  ELSE mapLayers
        bare   == IF currentOverlayLayer # Null THEN noBase \ {currentOverlayLayer}
                  ELSE noBase
        base   == [id |-> FreshId(bare), source |-> BaseSource(selectedLayer),
                   pane |-> "tile"]
        over   == [id |-> FreshId(bare \cup {base}), source |-> "google-h",
                   pane |-> "labels"]
    IN  IF selectedLayer = "darkHybrid"
        THEN [mapLayers |-> bare \cup {base, over}, base |-> base, overlay |-> over]
        ELSE [mapLayers |-> bare \cup {base}, base |-> base, overlay |-> Null]

\* changeMapLayer().  Every branch ends in addAirportMarkers(airports), and
\* airports is a const of initMap's try block: evaluating it in
\* changeMapLayer throws a ReferenceError, so neither addAirportMarkers nor
\* updateStatus runs and the error goes uncaught to the console
changeMapLayer(selectedLayer) ==
    LET r == ChangedLayers(selectedLayer)
    IN  /\ mapLayers' = r.mapLayers
        /\ currentBaseLayer' = r.base
        /\ currentOverlayLayer' = r.overlay
        /\ console' = Log("error", "Uncaught ReferenceError: airports is not defined")
        /\ last' = Step("changeMapLayer", selectedLayer)
        /\ sent' = "none"
        /\ UNCHANGED <<linkVars, posVars, flightVars, pollerVars, status,
                       airportMarkers, zoom, airports, zoomHandler, initMapPc>>

----------------------------------------------------------------------------
(* Specifications *)

SocketUp == socket = "open" /\ socketConnected

\* requests awaiting a response, of all kinds
Outstanding ==
    connectInFlight + disconnectInFlight + statusInFlight + legacyPosInFlight
    + legacyTypeInFlight + pollerPosInFlight + pollerTypeInFlight

\* the live link: connect, disconnect, status reports, toggle, socket events
Next ==
    \/ connectSimConnect
    \/ \E o \in ConnectOutcomes : connectResponse(o)
    \/ disconnectSimConnect
    \/ \E o \in DisconnectOutcomes : disconnectResponse(o)
    \/ \E c \in BOOLEAN : onSimconnectStatus(c)
    \/ checkSimConnectStatus
    \/ \E o \in StatusOutcomes : statusResponse(o)
    \/ toggleAutoUpdate
    \/ onSocketConnect
    \/ onSocketDisconnect
    \/ onSocketError

Spec == Init /\ [][Next]_vars

\* position readings by push and by the fallback poll, under pushed status
\* reports, the toggle and socket connects and disconnects
NextPos ==
    \/ \E c \in BOOLEAN : onSimconnectStatus(c)
    \/ toggleAutoUpdate
    \/ onSocketConnect
    \/ onSocketDisconnect
    \/ \E d \in Readings \cup {Null} : onAircraftPositionUpdate(d)
    \/ fetchAircraftDataEnhanced
    \/ \E o \in FetchOutcomes : \E d \in Readings : legacyPositionResponse(o, d)
    \/ \E o \in FetchOutcomes : \E t \in AircraftTypes : legacyTypeResponse(o, t)

SpecPos == Init /\ [][NextPos]_vars

\* the map renderer
NextMap ==
    \/ \E l \in AirportLists : initMapLoaded(l)
    \/ initMapFailed
    \/ \E z \in ZoomLevels : onZoomEnd(z)
    \/ \E l \in LayerIds : changeMapLayer(l)

SpecMap == Init /\ [][NextMap]_vars

\* every operation that talks HTTP, with at most MaxOutstanding requests
\* awaiting a response at a time
NextNet ==
    \/ Outstanding < MaxOutstanding /\ connectSimConnect
    \/ \E o \in ConnectOutcomes : connectResponse(o)
    \/ Outstanding < MaxOutstanding /\ disconnectSimConnect
    \/ \E o \in DisconnectOutcomes : disconnectResponse(o)
    \/ Outstanding < MaxOutstanding /\ checkSimConnectStatus
    \/ \E o \in StatusOutcomes : statusResponse(o)
    \/ Outstanding < MaxOutstanding /\ fetchAircraftDataEnhanced
    \/ \E o \in FetchOutcomes : \E d \in Readings : legacyPositionResponse(o, d)
    \/ \E o \in FetchOutcomes : \E t \in AircraftTypes : legacyTypeResponse(o, t)
    \/ Outstanding < MaxOutstanding /\ fetchAircraftData
    \/ \E o \in FetchOutcomes : pollerPositionResponse(o)
    \/ \E o \in FetchOutcomes : pollerTypeResponse(o)

SpecNet == Init /\ [][NextNet]_vars

\* the poller beside the live link: socket connects and disconnects, pushed
\* status reports and pushed readings
NextPoller ==
    \/ fetchAircraftData
    \/ \E o \in FetchOutcomes : pollerPositionResponse(o)
    \/ \E o \in FetchOutcomes : pollerTypeResponse(o)
    \/ onSocketConnect
    \/ onSocketDisconnect
    \/ \E c \in BOOLEAN : onSimconnectStatus(c)
    \/ \E d \in Readings \cup {Null} : onAircraftPositionUpdate(d)

SpecPoller == Init /\ [][NextPoller]_vars

----------------------------------------------------------------------------
(* The live-link state of the specification's state machine *)

linkState ==
    IF isSimConnectConnected THEN "connected"
    ELSE IF connectInFlight > 0 THEN "connecting"
    ELSE "disconnected"

\* the steps the state machine of the specification allows
SpecStep(s, t) ==
    \/ s = t
    \/ s = "disconnected" /\ t = "connecting"
    \/ s = "connecting" /\ t = "connected"
    \/ t = "disconnected"

StatusReport(l) == l.op \in {"simconnect_status", "statusResponse"}

SaysConnected(l) == StatusReport(l) /\ l.outcome = "connected"

SaysNotConnected(l) ==
    StatusReport(l) /\ l.outcome \in {"not_connected", "error_flagged"}

----------------------------------------------------------------------------
(* C1 *)

\* C1, as claimed: the live-link state starts as disconnected and changes
\* only by disconnected->connecting, connecting->connected or a return to
\* disconnected.
C1_OnlySpecSteps ==
    /\ linkState = "disconnected"
    /\ [][SpecStep(linkState, linkState')]_vars

\* C1, amended: the live-link state starts as disconnected; besides the
\* three steps of the state machine, a status report (pushed
\* simconnect_status or status-check response) saying connected takes the
\* link to connected from any state, disconnected included, and a completed
\* disconnect or a status report saying not connected takes a connected
\* link back to connecting when a connect request is still in flight.  The
\* link becomes connected by nothing but a successful connect response
\* while connecting or such a status report.
C1_Transitions ==
    /\ linkState = "disconnected"
    /\ [][ /\ \/ SpecStep(linkState, linkState')
              \/ linkState' = "connected" /\ SaysConnected(last')
              \/ /\ linkState = "connected" /\ linkState' = "connecting"
                 /\ \/ last'.op = "disconnectResponse"
                    \/ SaysNotConnected(last')
           /\ (linkState # "connected" /\ linkState' = "connected") =>
                 \/ /\ linkState = "connecting"
                    /\ last' = Step("connectResponse", "success")
                 \/ SaysConnected(last')
         ]_vars

\* a connect request took the link from connecting to connected
C1_Witness ==
    /\ linkState = "connected"
    /\ last = Step("connectResponse", "success")
    /\ connectInFlight = 0

----------------------------------------------------------------------------
(* C2 *)

DisconnectedDisplay ==
    /\ ~isSimConnectConnected
    /\ ~connectBtn.disabled
    /\ disconnectBtnDisabled
    /\ indicatorDisplay = "none"

\* C2, as claimed: every completed disconnect request leaves the link
\* disconnected (flag false, connect enabled, disconnect disabled, indicator
\* hidden), whatever the response.
C2_AlwaysDisconnected ==
    last.op = "disconnectResponse" => DisconnectedDisplay

\* C2, amended: a disconnect request answered with a parsable body, whatever
\* its HTTP status, leaves the link disconnected (flag false, connect
\* enabled, disconnect disabled, indicator hidden) and reports success; a
\* network failure or an unparsable body leaves flag, buttons and indicator
\* as they were and shows an error-style status.
C2_DisconnectOutcome ==
    [][ last'.op = "disconnectResponse" =>
          IF last'.outcome \in {"ok", "http_error"}
          THEN /\ DisconnectedDisplay'
               /\ status'.message.tag = "Disconnected from SimConnect"
               /\ status'.text = "Succeeded"
          ELSE /\ UNCHANGED <<isSimConnectConnected, connectBtn, disconnectBtnDisabled,
                              indicatorDisplay>>
               /\ status'.message.tag = "Disconnect error: "
               /\ status'.text = "Failed"
      ]_vars

\* an error status with a parsable body has disconnected the link
C2_Witness ==
    /\ last = Step("disconnectResponse", "http_error")
    /\ DisconnectedDisplay
    /\ simconnectStatus = "status-connected"

----------------------------------------------------------------------------
(* C9 *)

ErrorStyle(st) == st.dot = "#ef4444" /\ st.text = "Failed"

FailedConnect(l) == l.op = "connectResponse" /\ l.outcome # "success"

----------------------------------------------------------------------------
(* C3 *)

\* a position reading has arrived, by push or by the fallback poll
ReadingArrived(l) ==
    /\ l.op \in {"aircraft_position_update", "legacyPositionResponse"}
    /\ l.outcome = "data"

\* C3: while autoUpdateEnabled is false, a position reading arriving by the
\* push event or by the fallback poll changes none of the displayed position
\* fields, the aircraft data, the aircraft marker or the status line, and
\* does not change the connection state.
C3_DisabledReadingIgnored ==
    [][ (~autoUpdateEnabled /\ ReadingArrived(last')) =>
          UNCHANGED <<fields, aircraftData, aircraftMarker, mapAircraft, status,
                      isSimConnectConnected, connectBtn, disconnectBtnDisabled,
                      indicatorDisplay, simconnectStatus, socketConnected,
                      autoUpdateEnabled>>
      ]_vars

\* a pushed reading arrived with the toggle off, after an earlier reading
\* had been displayed
C3_Witness ==
    /\ ~autoUpdateEnabled
    /\ last.op = "aircraft_position_update"
    /\ last.outcome = "data"
    /\ aircraftMarker # Null
    /\ last.data.latitude # aircraftData.latitude

----------------------------------------------------------------------------
(* C4 *)

LegacyStep(l) == l.op \in {"fetchAircraftDataEnhanced", "legacyPositionResponse"}

----------------------------------------------------------------------------
(* C7 *)

\* r is x rounded to the nearest integer, halves upwards (x in tenths)
IsRounded(r, x) == 10 * r - x \in -4..5

\* C7: with auto-update enabled, handleRealtimePositionUpdate applied to a
\* reading with numeric fields sets the displayed altitude to the rounded
\* altitude and places the aircraft marker at (latitude, longitude) with its
\* icon rotated by heading minus 90 degrees; altitude 1000 and heading 90
\* give displayed altitude 1000 and rotation 0.
C7_ReadingDisplayed ==
    (ReadingArrived(last) /\ last.data.wellFormed /\ autoUpdateEnabled) =>
        LET p == last.data
        IN  /\ IsRounded(fields.altitude, p.altitude)
            /\ aircraftMarker # Null
            /\ aircraftMarker \in mapAircraft
            /\ aircraftMarker.lat = p.latitude
            /\ aircraftMarker.lng = p.longitude
            /\ aircraftMarker.rot + 900 = p.heading
            /\ (p.altitude = 10000 /\ p.heading = 900) =>
                  (fields.altitude = 1000 /\ aircraftMarker.rot = 0)

\* altitude 1234.5 was displayed as 1235
C7_Witness ==
    /\ last.op = "aircraft_position_update"
    /\ autoUpdateEnabled
    /\ last.data # Null
    /\ last.data.altitude = 12345
    /\ fields.altitude = 1235
    /\ aircraftMarker.rot = 1805

----------------------------------------------------------------------------
(* C5 *)

\* C5: after initMap and after any sequence of changeMapLayer calls the map
\* has at most one base layer and at most one overlay layer attached, and
\* every layer that was replaced has been removed from the map.
C5_OneBaseOneOverlay ==
    /\ Cardinality({l \in mapLayers : l.pane = "tile"}) <= 1
    /\ Cardinality({l \in mapLayers : l.pane = "labels"}) <= 1
    /\ mapLayers \subseteq {currentBaseLayer, currentOverlayLayer}
    /\ currentBaseLayer \in mapLayers

\* a layer change to a plain layer has left the new base layer alone on the map
C5_Witness ==
    /\ last.op = "changeMapLayer"
    /\ last.outcome = "satellite"
    /\ currentOverlayLayer = Null
    /\ Cardinality(mapLayers) = 1
    /\ console.level = "error"

----------------------------------------------------------------------------
(* C6 *)

\* the band rule: which airports show at zoom z
InBand(a, z) ==
    \/ z < 5 /\ a.size = 1
    \/ z \in 5..8 /\ a.size <= 2
    \/ z > 8

\* the markers are those of the airports of the band, in list order
MarkersMatchBand ==
    LET idx == {i \in 1..Len(airports) : InBand(airports[i], zoom)}
        nth(k) == CHOOSE i \in idx : Cardinality({j \in idx : j < i}) = k - 1
    IN  /\ Len(airportMarkers) = Cardinality(idx)
        /\ \A k \in 1..Len(airportMarkers) :
              /\ airportMarkers[k].popup = airports[nth(k)].code
              /\ airportMarkers[k].lat = airports[nth(k)].lat
              /\ airportMarkers[k].lng = airports[nth(k)].lng

\* C6: for any airport list and any sequence of zoom changes, after each
\* recompute by addAirportMarkers the marker collection is exactly the band
\* subset for the current zoom (below 5: size 1; 5 to 8: size at most 2;
\* above 8: all), with no marker left over from the previous recompute.
C6_MarkersAreBandSubset ==
    zoomHandler => MarkersMatchBand

\* a zoom change dropped one of two markers
C6_Witness ==
    /\ last.op = "zoomend"
    /\ zoomHandler
    /\ Len(airports) = 2
    /\ Len(airportMarkers) = 1
    /\ zoom \in 5..8

----------------------------------------------------------------------------
(* C8 *)

\* C8, as claimed: every changeMapLayer call runs to completion: the marker
\* collection matches the band rule for the current zoom and the status
\* line reports the layer change.  The code throws before both.
C8_LayerChangeCompletes ==
    last.op = "changeMapLayer" =>
        /\ C5_OneBaseOneOverlay
        /\ currentBaseLayer.source = BaseSource(last.outcome)
        /\ MarkersMatchBand
        /\ status.message.tag = "Map layer changed to "
        /\ status.message.word = last.outcome
        /\ status.text = "Succeeded"
        /\ console.level # "error"

----------------------------------------------------------------------------
(* C10 *)

Rejected(l) == l.outcome \in {"unparsable", "network"}

\* failures of connect and disconnect that reach their catch or else branch
LinkFailure(l) ==
    \/ FailedConnect(l)
    \/ l.op = "disconnectResponse" /\ Rejected(l)

\* failures of the status check, the poller and the fallback poll that the
\* code recognises: rejections, and error payloads of the two feeds
TimerFailure(l) ==
    \/ l.op = "statusResponse" /\ Rejected(l)
    \/ /\ l.op \in {"pollerPositionResponse", "pollerTypeResponse",
                     "legacyPositionResponse", "legacyTypeResponse"}
       /\ l.outcome \in {"error", "unparsable", "network"}

\* error-flagged answers the code takes for normal ones
UnnoticedFailure(l) ==
    \/ l.op = "disconnectResponse" /\ l.outcome = "http_error"
    \/ l.op = "statusResponse" /\ l.outcome = "error_flagged"

\* the request the failed step was waiting for is not sent again by it
NoRetry(l) ==
    /\ l.op = "connectResponse" => sent' = "none" /\ connectInFlight' < connectInFlight
    /\ l.op = "disconnectResponse" =>
          sent' = "none" /\ disconnectInFlight' < disconnectInFlight
    /\ l.op = "statusResponse" => sent' = "none" /\ statusInFlight' < statusInFlight
    /\ l.op = "pollerPositionResponse" =>
          sent' # "/aircraft/position" /\ pollerPosInFlight' < pollerPosInFlight
    /\ l.op = "legacyPositionResponse" =>
          sent' # "/aircraft/position" /\ legacyPosInFlight' < legacyPosInFlight
    /\ l.op = "pollerTypeResponse" =>
          sent' = "none" /\ pollerTypeInFlight' < pollerTypeInFlight
    /\ l.op = "legacyTypeResponse" =>
          sent' = "none" /\ legacyTypeInFlight' < legacyTypeInFlight

\* C10, as claimed: every failed network operation (connect, disconnect,
\* status check, poller cycle, fallback poll cycle), network error or
\* malformed or error-flagged response, is logged and reflected in the
\* status line in error style.
C10_FailuresShown ==
    (LinkFailure(last) \/ TimerFailure(last) \/ UnnoticedFailure(last)) =>
        /\ console.level = "error"
        /\ ErrorStyle(status)

\* C10, amended: every failed connect, disconnect, status check, poller
\* cycle and fallback poll cycle that ends in a rejection (network error,
\* unparsable body), a connect answer without success, or an error payload
\* of /aircraft/position or /aircraft/type is caught and logged with
\* console.error, and the failing step sends its request no second time.
\* Only the failures of connect and disconnect are reflected in the status
\* line (error style); those of the status check, the poller and the
\* fallback poll leave the status line as it was.  An error status with a
\* parsable body answering disconnect, and an error-flagged body answering
\* the status check, are not treated as failures at all: they are logged
\* with console.log and the status line is not put in error style.
C10_FailureHandling ==
    [][ /\ (LinkFailure(last') \/ TimerFailure(last')) =>
              (console'.level = "error" /\ NoRetry(last'))
        /\ LinkFailure(last') => ErrorStyle(status')
        /\ TimerFailure(last') => status' = status
        /\ UnnoticedFailure(last') =>
              (console'.level = "log" /\ ~(ErrorStyle(status') /\ ~ErrorStyle(status)))
      ]_vars

\* a failed status check was logged while the status line shows no error
C10_Witness ==
    /\ last = Step("statusResponse", "network")
    /\ console = Log("error", "Error checking SimConnect status:")
    /\ ~ErrorStyle(status)
    /\ isSimConnectConnected

----------------------------------------------------------------------------
(* C11 *)

PollerStep(l) ==
    l.op \in {"fetchAircraftData", "pollerPositionResponse", "pollerTypeResponse"}

\* C11, as claimed: in every poller cycle the type request is issued
\* whatever the outcome of the position request, a network failure
\* included.
C11_TypeAlwaysRequested ==
    last.op = "pollerPositionResponse" => sent = "/aircraft/type"

\* C11, amended: in every poller cycle the position request is issued first;
\* the type request is issued, and its result logged, after every parsable
\* position response, success payload or error payload alike.  A network
\* failure or an unparsable body of the position request ends the cycle in
\* the catch: it is logged, no type request is issued, and nothing is
\* retried within the cycle.
C11_TypeAfterParsablePosition ==
    [][ /\ last'.op = "fetchAircraftData" =>
              (sent' = "/aircraft/position" /\ pollerPosInFlight' = pollerPosInFlight + 1)
        /\ last'.op = "pollerPositionResponse" =>
              /\ pollerPosInFlight' = pollerPosInFlight - 1
              /\ IF last'.outcome \in {"data", "error"}
                 THEN /\ sent' = "/aircraft/type"
                      /\ pollerTypeInFlight' = pollerTypeInFlight + 1
                      /\ console'.level = IF last'.outcome = "error" THEN "error" ELSE "log"
                 ELSE /\ sent' = "none"
                      /\ pollerTypeInFlight' = pollerTypeInFlight
                      /\ console' = Log("error", "Fetch Error:")
        /\ last'.op = "pollerTypeResponse" =>
              /\ sent' = "none"
              /\ UNCHANGED pollerPosInFlight
              /\ pollerTypeInFlight' = pollerTypeInFlight - 1
              /\ console'.tag = CASE last'.outcome = "data" -> "Aircraft Type:"
                                  [] last'.outcome = "error" -> "Type Error:"
                                  [] OTHER -> "Fetch Error:"
      ]_vars

\* the type request followed an error payload of the position request
C11_Witness ==
    /\ last = Step("pollerPositionResponse", "error")
    /\ sent = "/aircraft/type"
    /\ pollerTypeInFlight = 1
    /\ console = Log("error", "Position Error:")

----------------------------------------------------------------------------
(* C12 *)

\* the live link is connected in both senses: the socket is up and
\* SimConnect is reported connected
LiveLinkConnected == SocketUp /\ isSimConnectConnected

\* C12, as claimed: while the live link is connected the poller's timer
\* issues no /aircraft/position or /aircraft/type request.
C12_PollerSuperseded ==
    (PollerStep(last) /\ sent # "none") => ~LiveLinkConnected

\* C12, amended: the poller is not superseded: its timer issues the
\* /aircraft/position and /aircraft/type requests on every tick whatever the
\* state of the live link, connected included; it only logs, and no step of
\* it produces a position update or changes the live link.
C12_PollerRunsAndOnlyLogs ==
    /\ [](pollerPosInFlight < MaxInFlight => ENABLED fetchAircraftData)
    /\ [][ PollerStep(last') =>
              UNCHANGED <<fields, aircraftData, aircraftMarker, mapAircraft, status,
                          linkVars>>
         ]_vars

\* a poller tick sent its request while the live link was connected
C12_Witness ==
    /\ last = Step("fetchAircraftData", "request")
    /\ sent = "/aircraft/position"
    /\ LiveLinkConnected
    /\ aircraftMarker # Null

----------------------------------------------------------------------------
(* C13 *)

----------------------------------------------------------------------------
(* C14 *)

\* the step applied its reading: auto-update was on and the fields were numeric
Applied(l) == ReadingArrived(l) /\ l.data.wellFormed /\ autoUpdateEnabled

\* r is x (in 1e-7 units) to six decimals
IsFixed6(r, x) == 10 * r - x \in -5..5

\* C14: under any interleaving of pushed and fallback-poll position updates,
\* the map holds at most one aircraft marker, the displayed fields and that
\* marker reflect the most recently applied reading, and applying the same
\* reading twice leaves the same state as applying it once.
C14_LastWriteWins ==
    /\ [](/\ Cardinality(mapAircraft) <= 1
          /\ aircraftMarker # Null => mapAircraft = {aircraftMarker})
    /\ [](Applied(last) =>
            LET p == last.data
            IN  /\ IsFixed6(fields.latitude, p.latitude)
                /\ IsFixed6(fields.longitude, p.longitude)
                /\ IsRounded(fields.altitude, p.altitude)
                /\ IsRounded(fields.heading, p.heading)
                /\ mapAircraft = {aircraftMarker}
                /\ aircraftMarker.lat = p.latitude
                /\ aircraftMarker.lng = p.longitude
                /\ aircraftMarker.rot + 900 = p.heading
                /\ aircraftData.latitude = p.latitude
                /\ aircraftData.longitude = p.longitude
                /\ aircraftData.altitude = p.altitude
                /\ aircraftData.heading = p.heading)
    /\ [][ (Applied(last) /\ Applied(last') /\ last'.data = last.data) =>
              UNCHANGED <<fields, aircraftData, aircraftMarker, mapAircraft, status>>
         ]_vars

\* a reading of the fallback poll has replaced the marker of another reading
C14_Witness ==
    /\ last.op = "legacyPositionResponse"
    /\ Applied(last)
    /\ mapAircraft = {aircraftMarker}
    /\ aircraftMarker.lat = -338567849
    /\ fields.latitude = -33856785
    /\ fields.altitude = -2

----------------------------------------------------------------------------
(* C15 *)

\* C15, as claimed: in every state in which no connect request is in
\* flight, the connect button is disabled exactly when isSimConnectConnected
\* is true and the disconnect button exactly when it is false.  The finally
\* block of connectSimConnect enables the connect button after a success.
C15_FlagDrivesButtons ==
    connectInFlight = 0 =>
        /\ connectBtn.disabled <=> isSimConnectConnected
        /\ disconnectBtnDisabled <=> ~isSimConnectConnected

----------------------------------------------------------------------------
(* C16 *)

\* C16: starting with the live indicator hidden, after any sequence of
\* connect, disconnect, status updates and auto-update toggles the live
\* indicator is displayed exactly when the live link is connected and
\* autoUpdateEnabled is true.
C16_IndicatorShown ==
    /\ indicatorDisplay \in {"flex", "none"}
    /\ indicatorDisplay = "flex" <=> (isSimConnectConnected /\ autoUpdateEnabled)

\* switching auto-update back on while connected brought the indicator back
C16_Witness ==
    /\ last.op = "toggleAutoUpdate"
    /\ autoUpdateEnabled
    /\ isSimConnectConnected
    /\ indicatorDisplay = "flex"

----------------------------------------------------------------------------
(* C17 *)

\* C17, as claimed: while a connect request is in flight the connect button
\* stays disabled, whatever status events and status-check responses
\* arrive.  updateSimConnectStatus enables it on a report of not connected.
C17_ButtonDisabledInFlight ==
    connectInFlight > 0 => connectBtn.disabled

----------------------------------------------------------------------------
(* C18 *)

\* C18, as claimed, for the step right after a successful connect: a
\* status-check response arriving then answers a request issued before the
\* connect completed, and must leave the link connected.
C18_StaleStatusIgnored ==
    [][ (/\ last = Step("connectResponse", "success")
         /\ isSimConnectConnected
         /\ last'.op = "statusResponse") => isSimConnectConnected'
      ]_vars

====
